---- MODULE Spec2Model ----
(***************************************************************************)
(* Model of gnosticdev/hono-action: the action wrapper defineHonoAction     *)
(* (validation + {data, error} envelope), the HonoActionError class, and    *)
(* the generated-router pattern that mounts a collection of actions under   *)
(* a base path (Spec); several requests in flight on one action (ConcSpec); *)
(* and one configuration pass of the Astro integration, in its three        *)
(* sources (PassSpec).                                                      *)
(*                                                                          *)
(* JavaScript values are tagged records, so that JSON serialisation, which  *)
(* drops undefined members and the non-enumerable members of an Error, is   *)
(* something the model computes and not the identity.                       *)
(***************************************************************************)
EXTENDS FiniteSets, Integers, Sequences, TLC

(* ------------------------------- bounds -------------------------------- *)

\* longest list of issues a failed validation reports
MaxIssues == 2

(* --------------------------- JavaScript values -------------------------- *)

Null == [t |-> "null"]
Undefined == [t |-> "undefined"]
Str(s) == [t |-> "string", s |-> s]
Bool(b) == [t |-> "boolean", b |-> b]
Arr(items) == [t |-> "array", items |-> items]
\* an object: its class, its own properties, and which of them are enumerable
Obj(class, props, enum) ==
    [t |-> "object", class |-> class, props |-> props, enum |-> enum]
\* an object literal: every property is enumerable
Literal(props) == Obj("Object", props, DOMAIN props)

\* member access obj.k (undefined when absent, or when obj is no object)
Get(v, k) ==
    IF v.t = "object" /\ k \in DOMAIN v.props THEN v.props[k] ELSE Undefined

\* JavaScript truthiness, for the values the model uses
Truthy(v) ==
    CASE v.t \in {"null", "undefined"} -> FALSE
      [] v.t = "string" -> v.s # ""
      [] v.t = "boolean" -> v.b
      [] OTHER -> TRUE

\* v instanceof class
InstanceOf(v, class) == v.t = "object" /\ v.class = class

\* JSON.stringify followed by the client's JSON.parse: only own enumerable
\* properties survive, and members whose value is undefined are omitted.
RECURSIVE JSONstringify(_)
JSONstringify(v) ==
    CASE v.t = "object" ->
            LET keep == {k \in v.enum : v.props[k].t # "undefined"}
            IN  Obj("Object", [k \in keep |-> JSONstringify(v.props[k])], keep)
      [] v.t = "array" ->
            Arr([i \in DOMAIN v.items |-> JSONstringify(v.items[i])])
      [] OTHER -> v

(* ------------------------------ error.ts -------------------------------- *)

ActionErrorCode ==
    {"INPUT_VALIDATION_ERROR", "EXTERNAL_API_ERROR", "INTERNAL_SERVER_ERROR",
     "UNKNOWN_ERROR", "LOCATION_NOT_FOUND", "SESSION_NOT_FOUND"}

\* new HonoActionError({message, code, issue}): super(message) defines message
\* (and stack) as non-enumerable own properties; name, code and issue are
\* assigned, hence enumerable.
HonoActionError(message, code, issue) ==
    Obj("HonoActionError",
        [message |-> message, stack |-> Str("stack"),
         name |-> Str("HonoActionError"), code |-> code, issue |-> issue],
        {"name", "code", "issue"})

(* ------------------------------ responses ------------------------------- *)

NoResponse == [status |-> 0]

\* c.json(object, status)
c_json(object, status) ==
    [status |-> status, type |-> "json", body |-> JSONstringify(object)]

\* Hono's answer when no handler of the chain responds
NotFound == [status |-> 404, type |-> "text", body |-> Str("404 Not Found")]

\* what a request leaves behind, in order
ConsoleError(arg) == [ev |-> "console.error", arg |-> arg]
HandlerCall(input, context) ==
    [ev |-> "handler", input |-> input, context |-> context]
Responded(status) == [ev |-> "c.json", status |-> status]

(* ------------------------- inputs of the model -------------------------- *)

\* export keys of the actions collection
Keys == {"testAction", "anotherAction", "getOnly"}

\* configured base paths, as lists of path segments ('/api', '/api/v1')
BasePaths == {<<"api">>, <<"api", "v1">>}

\* environment bindings passed along with a request
Envs == {"envA", "envB"}

\* a validation issue as the validator reports it
Issue(message) == Literal([message |-> Str(message), code |-> Str("invalid")])
Issues == {Issue("Invalid email"), Issue("Too small")}

SeqsUpTo(S, n) == UNION {[1..m -> S] : m \in 1..n}

\* the result handed to the validator hook: the parsed output on success, a
\* non-empty list of issues on failure
ValidationResults ==
    {[success |-> TRUE, data |-> Literal([name |-> Str("John")])]}
      \cup {[success |-> FALSE, issues |-> s] : s \in SeqsUpTo(Issues, MaxIssues)}

\* the JSON bodies callers send: an object with a field the schema does not
\* declare, the empty object, and a JSON string
EmptyObject == Literal([k \in {} |-> Null])
RawBodies ==
    {Literal([name |-> Str("John"), extra |-> Str("x")]), EmptyObject, Str("text")}

\* what a schema given by the user makes of a body: the object parses to its
\* declared fields only, the empty object and the string are rejected
UserSchemaCases ==
    {[body |-> Literal([name |-> Str("John"), extra |-> Str("x")]),
      result |-> r] : r \in {v \in ValidationResults : v.success}}
      \cup {[body |-> EmptyObject, result |-> r] :
                r \in {v \in ValidationResults : ~v.success}}
      \cup {[body |-> Str("text"),
              result |-> [success |-> FALSE,
                          issues |-> <<Issue("Expected object, received string")>>]]}

\* what the handler of an action does with one request
ReturnValues ==
    {Null, Undefined, Str(""), Literal([message |-> Str("Hello John")])}
ThrownActionErrors ==
    {HonoActionError(Str(m), Str(c), i) :
        m \in {"Test error", ""}, c \in ActionErrorCode,
        i \in {Undefined, Issue("Invalid email")}}
ThrownOthers ==
    {Obj("Error", [message |-> Str("db password leaked"), stack |-> Str("stack")], {}),
     Literal([code |-> Str("UNKNOWN_ERROR"), message |-> Str("secret")]),
     Str("oops")}
HandlerOutcomes ==
    {[kind |-> "return", value |-> v] : v \in ReturnValues}
      \cup {[kind |-> "throw", value |-> e] : e \in ThrownActionErrors \cup ThrownOthers}

(* ----------------------- actions.ts: defineHonoAction ------------------- *)

Envelope(data, error) == Literal([data |-> data, error |-> error])

\* firstIssue?.message || 'Validation error'
ValidationMessage(firstIssue) ==
    IF Truthy(Get(firstIssue, "message"))
    THEN Get(firstIssue, "message")
    ELSE Str("Validation error")

\* the hook as it would be without its return statement: the 400 response is
\* built but the chain goes on to the route handler
ValidatorHookFallsThrough(result) ==
    IF ~result.success
    THEN [returned |-> FALSE,
          trace |-> <<ConsoleError(Arr(result.issues)), Responded(400)>>,
          res |-> NoResponse]
    ELSE [returned |-> FALSE, trace |-> <<>>, res |-> NoResponse]

\* the hook given to zValidator: on failure it logs the issues and returns the
\* 400 response, which ends the chain; on success it returns nothing.
ValidatorHook(result) ==
    IF ~result.success
    THEN LET firstIssue == IF Len(result.issues) > 0
                           THEN result.issues[1] ELSE Undefined
         IN  [returned |-> TRUE,
              trace |-> <<ConsoleError(Arr(result.issues)), Responded(400)>>,
              res |-> c_json(Envelope(Null,
                                      HonoActionError(ValidationMessage(firstIssue),
                                                      Str("INPUT_VALIDATION_ERROR"),
                                                      firstIssue)),
                             400)]
    ELSE [returned |-> FALSE, trace |-> <<>>, res |-> NoResponse]

\* the catch block as it would be if it put the caught error itself into the
\* envelope, the way the validator hook does
CatchBlockEnvelopesInstance(error) ==
    [trace |-> <<ConsoleError(error), Responded(500)>>,
     res |-> c_json(Envelope(Null,
                             IF InstanceOf(error, "HonoActionError") THEN error
                             ELSE Literal([message |-> Str("Internal server error"),
                                           code |-> Str("INTERNAL_SERVER_ERROR")])),
                    500)]

\* the catch block as it would be if it recognised an action error by its
\* code member instead of by instanceof
CatchBlockDuckTyped(error) ==
    LET isActionError == Get(error, "code") # Undefined
        errorMessage == IF isActionError THEN Get(error, "message")
                        ELSE Str("Internal server error")
        errorCode == IF isActionError THEN Get(error, "code")
                     ELSE Str("INTERNAL_SERVER_ERROR")
    IN  [trace |-> <<ConsoleError(error), Responded(500)>>,
         res |-> c_json(Envelope(Null, Literal([message |-> errorMessage,
                                                code |-> errorCode])),
                        500)]

\* the catch block as it would be without console.error(error)
CatchBlockNoLog(error) ==
    LET isActionError == InstanceOf(error, "HonoActionError")
        errorMessage == IF isActionError THEN Get(error, "message")
                        ELSE Str("Internal server error")
        errorCode == IF isActionError THEN Get(error, "code")
                     ELSE Str("INTERNAL_SERVER_ERROR")
    IN  [trace |-> <<Responded(500)>>,
         res |-> c_json(Envelope(Null, Literal([message |-> errorMessage,
                                                code |-> errorCode])),
                        500)]

\* the catch block as it would be if it chose the status from the error
\* code: 400 for INPUT_VALIDATION_ERROR, 500 otherwise
CatchBlockStatusFromCode(error) ==
    LET isActionError == InstanceOf(error, "HonoActionError")
        errorMessage == IF isActionError THEN Get(error, "message")
                        ELSE Str("Internal server error")
        errorCode == IF isActionError THEN Get(error, "code")
                     ELSE Str("INTERNAL_SERVER_ERROR")
        status == IF errorCode = Str("INPUT_VALIDATION_ERROR") THEN 400 ELSE 500
    IN  [trace |-> <<ConsoleError(error), Responded(status)>>,
         res |-> c_json(Envelope(Null, Literal([message |-> errorMessage,
                                                code |-> errorCode])),
                        status)]

\* the catch block of the route handler
CatchBlock(error) ==
    LET isActionError == InstanceOf(error, "HonoActionError")
        errorMessage == IF isActionError THEN Get(error, "message")
                        ELSE Str("Internal server error")
        errorCode == IF isActionError THEN Get(error, "code")
                     ELSE Str("INTERNAL_SERVER_ERROR")
    IN  [trace |-> <<ConsoleError(error), Responded(500)>>,
         res |-> c_json(Envelope(Null, Literal([message |-> errorMessage,
                                                code |-> errorCode])),
                        500)]

\* the route handler as it would be if it read the body with c.req.json()
\* instead of c.req.valid('json')
ActionHandlerRawBody(req) ==
    LET json == req.body
        call == HandlerCall(json, req.env)
    IN  IF req.outcome.kind = "return"
        THEN [trace |-> <<call, Responded(200)>>,
              res |-> c_json(Envelope(req.outcome.value, Null), 200)]
        ELSE LET caught == CatchBlock(req.outcome.value)
             IN  [trace |-> <<call>> \o caught.trace, res |-> caught.res]

\* the route handler: the user's handler is awaited once inside try
ActionHandler(req) ==
    LET json == IF req.result.success THEN req.result.data ELSE Undefined
        call == HandlerCall(json, req.env)
    IN  IF req.outcome.kind = "return"
        THEN [trace |-> <<call, Responded(200)>>,
              res |-> c_json(Envelope(req.outcome.value, Null), 200)]
        ELSE LET caught == CatchBlock(req.outcome.value)
             IN  [trace |-> <<call>> \o caught.trace, res |-> caught.res]

\* a path pattern: its segments, and whether it ends in '*'
Path(segs, wild) == [segs |-> segs, wild |-> wild]
Root == Path(<<>>, FALSE)

Route(method, path, handler) ==
    [method |-> method, path |-> path, handler |-> handler]

\* the schema argument of defineHonoAction: a schema of the user's, or none
UserSchema == "schema"
NoSchema == "undefined"
Schemas == {UserSchema, NoSchema}

\* z.object({}).passthrough(), which keeps the fields it does not declare
passthroughObject(body) ==
    IF body.t = "object"
    THEN [success |-> TRUE, data |-> body]
    ELSE [success |-> FALSE,
          issues |-> <<Issue("Expected object, received " \o body.t)>>]

\* z.object({}), the schema used when none is given: an object parses to the
\* empty object (undeclared keys are stripped), anything else is rejected
emptyObject(body) ==
    IF body.t = "object"
    THEN [success |-> TRUE, data |-> EmptyObject]
    ELSE [success |-> FALSE,
          issues |-> <<Issue("Expected object, received " \o body.t)>>]

\* zValidator('json', schema ?? z.object({}), hook): the validator of an
\* action, named by the schema it parses the body with
zValidator(schema) ==
    IF schema = NoSchema THEN "zValidator(z.object({}))" ELSE "zValidator"

\* defineHonoAction({schema, handler}): a Hono app with one POST '/' route,
\* made of the validator and the route handler
defineHonoAction(schema) ==
    [basePath |-> <<>>,
     routes |-> <<Route("POST", Root, zValidator(schema)),
                  Route("POST", Root, "action")>>]

(* ------------------- the router built from the collection --------------- *)

\* a user's own Hono instance with only a GET '/' handler
getOnlyApp == [basePath |-> <<>>, routes |-> <<Route("GET", Root, "custom")>>]

\* mergePath: joining '/k' and '/' gives '/k'
mergePath(base, path) == Path(base \o path.segs, path.wild)

\* app.use('*', logger(), prettyJSON()): one ALL route per middleware
use(app, handlers) ==
    [app EXCEPT !.routes =
        @ \o [i \in DOMAIN handlers |->
                Route("ALL", mergePath(app.basePath, Path(<<>>, TRUE)), handlers[i])]]

\* app.route(path, subApp): every route of subApp is added under
\* basePath + path, with its own method
route(app, path, subApp) ==
    [app EXCEPT !.routes =
        @ \o [i \in DOMAIN subApp.routes |->
                Route(subApp.routes[i].method,
                      mergePath(app.basePath \o path, subApp.routes[i].path),
                      subApp.routes[i].handler)]]

\* the loop as it would be if it mounted every member at '/'
RECURSIVE mountAllAtRoot(_, _)
mountAllAtRoot(app, entries) ==
    IF entries = <<>> THEN app
    ELSE mountAllAtRoot(route(app, <<>>, Head(entries).app), Tail(entries))

\* the loop as it would be if it registered every member's handlers with
\* app.post(`/${routeName}`, ...)
RECURSIVE mountAllAsPost(_, _)
mountAllAsPost(app, entries) ==
    IF entries = <<>> THEN app
    ELSE LET sub == Head(entries).app.routes
         IN  mountAllAsPost(
                [app EXCEPT !.routes =
                    @ \o [i \in DOMAIN sub |->
                            Route("POST",
                                  mergePath(app.basePath \o <<Head(entries).key>>,
                                            sub[i].path),
                                  sub[i].handler)]],
                Tail(entries))

\* for (const [routeName, action] of Object.entries(actions))
\*     app.route(`/${routeName}`, action)
RECURSIVE mountAll(_, _)
mountAll(app, entries) ==
    IF entries = <<>> THEN app
    ELSE mountAll(route(app, <<Head(entries).key>>, Head(entries).app),
                  Tail(entries))

\* new Hono().basePath(basePath), the middleware, then every action
buildRouter(basePath, actions) ==
    mountAll(use([basePath |-> basePath, routes |-> <<>>],
                 <<"logger", "prettyJSON">>),
             actions)

\* does a registered route take part in answering the request
IsPrefix(p, q) == Len(p) <= Len(q) /\ SubSeq(q, 1, Len(p)) = p
Matches(r, req) ==
    /\ r.method \in {req.method, "ALL"}
    /\ IF r.path.wild THEN IsPrefix(r.path.segs, req.path)
       ELSE r.path.segs = req.path

\* the matched handlers run in registration order: a middleware passes on to
\* the next one, the validator hook may answer, a handler answers; when
\* nobody answers the request is not found.
\* schema.safeParse(await c.req.json()): the default schema is computed, the
\* verdict of a schema of the user's comes with the request
safeParse(validator, req) ==
    IF validator = zValidator(NoSchema) THEN emptyObject(req.body)
    ELSE req.result

RECURSIVE compose(_, _)
compose(handlers, req) ==
    IF handlers = <<>> THEN [trace |-> <<>>, res |-> NotFound]
    ELSE LET h == Head(handlers)
             next == compose(Tail(handlers), req)
         IN  CASE h \in {"logger", "prettyJSON"} -> next
               [] h \in {zValidator(s) : s \in Schemas} ->
                    \* the validated data is stored on the request, where
                    \* c.req.valid('json') finds it
                    LET result == safeParse(h, req)
                        hook == ValidatorHook(result)
                        rest == compose(Tail(handlers),
                                        [req EXCEPT !.result = result])
                    IN  IF hook.returned
                        THEN [trace |-> hook.trace, res |-> hook.res]
                        ELSE [trace |-> hook.trace \o rest.trace, res |-> rest.res]
               [] h = "action" -> ActionHandler(req)
               [] h = "custom" ->
                    [trace |-> <<Responded(200)>>,
                     res |-> c_json(Literal([ok |-> Bool(TRUE)]), 200)]

\* app.request(path, {method, ...})
dispatch(app, req) ==
    LET matched == SelectSeq(app.routes, LAMBDA r : Matches(r, req))
    IN  compose([i \in DOMAIN matched |-> matched[i].handler], req)

(* ------------------------------ the system ------------------------------ *)

VARIABLES
    honoActions,  \* the actions collection, in insertion order: <<[key, app]>>
    router,       \* the router built from it, NoRouter before it is built
    req,          \* the request served last
    res,          \* its response
    trace         \* what serving it did, in order

\* requests in flight at once on one action
VARIABLES
    closure,      \* what the wrapper's route handlers close over
    inflight      \* per slot: the request in it, how far it got, its response

\* one configuration pass of the integration
VARIABLES
    config,       \* the pass's inputs: options, project files, adapter
    pass,         \* how far the pass got, and the hook's local constants
    astro,        \* what the host was asked to do: watch, modules, routes, logs
    fs            \* the files of the codegen directory

servingVars == <<honoActions, router, req, res, trace>>
concVars == <<closure, inflight>>
passVars == <<config, pass, astro, fs>>
vars == <<servingVars, concVars, passVars>>

\* the values of the variables a specification does not use
NoClosure == [schema |-> "none"]
NoSlots == <<>>
NoConfig == [variant |-> "none"]
NoPass == [pc |-> "none"]
NoHost == [watched |-> {}]
NoFiles == {}

NoRouter == [basePath |-> <<>>, routes |-> <<>>, built |-> FALSE]
NoRequest == [method |-> "NONE"]

KeysOf(entries) == {entries[i].key : i \in DOMAIN entries}

Init ==
    /\ honoActions = <<>>
    /\ router = NoRouter
    /\ req = NoRequest
    /\ res = NoResponse
    /\ trace = <<>>
    /\ closure = NoClosure
    /\ inflight = NoSlots
    /\ config = NoConfig
    /\ pass = NoPass
    /\ astro = NoHost
    /\ fs = NoFiles

\* the actions module exports a defineHonoAction action under key k
DefineAction(k, schema) ==
    /\ ~router.built
    /\ k \notin KeysOf(honoActions)
    /\ honoActions' = Append(honoActions,
                             [key |-> k, app |-> defineHonoAction(schema)])
    /\ UNCHANGED <<router, req, res, trace>>
    /\ UNCHANGED <<concVars, passVars>>

\* the actions module exports a GET-only Hono instance under key k
DefineCustom(k) ==
    /\ ~router.built
    /\ k \notin KeysOf(honoActions)
    /\ honoActions' = Append(honoActions, [key |-> k, app |-> getOnlyApp])
    /\ UNCHANGED <<router, req, res, trace>>
    /\ UNCHANGED <<concVars, passVars>>

\* the generated router is built over the collection
BuildRouter(basePath) ==
    /\ ~router.built
    /\ router' = [buildRouter(basePath, honoActions) EXCEPT !.basePath = basePath]
                    @@ [built |-> TRUE]
    /\ UNCHANGED <<honoActions, req, res, trace>>
    /\ UNCHANGED <<concVars, passVars>>

\* the router answers one request
Serve(request) ==
    /\ LET out == dispatch(router, request)
       IN  /\ req' = request
           /\ res' = out.res
           /\ trace' = out.trace
    /\ UNCHANGED <<honoActions, router>>
    /\ UNCHANGED <<concVars, passVars>>

\* request paths below the base path: the base path itself, or one key
Suffixes == {<<>>} \cup {<<k>> : k \in Keys}

\* what the handler would do with a body that validation rejects
UnreachedOutcomes ==
    {[kind |-> "return", value |-> Literal([message |-> Str("Hello John")])],
     [kind |-> "throw", value |-> Str("oops")]}

\* the bodies sent to path k with what validation makes of each: computed
\* where the action at k has no schema, any case of a user's schema elsewhere
ParseCases(k) ==
    IF \E i \in DOMAIN honoActions :
            /\ <<honoActions[i].key>> = k
            /\ honoActions[i].app = defineHonoAction(NoSchema)
    THEN {[body |-> b,
           result |-> safeParse(zValidator(NoSchema), [body |-> b])] :
                b \in RawBodies}
    ELSE UserSchemaCases

\* POST basePath/k with a JSON body
Post ==
    /\ router.built
    /\ req = NoRequest
    /\ \E k \in Suffixes, e \in Envs :
         \E c \in ParseCases(k) :
         \E o \in IF c.result.success THEN HandlerOutcomes ELSE UnreachedOutcomes :
            Serve([method |-> "POST", path |-> router.basePath \o k, env |-> e,
                   body |-> c.body, result |-> c.result, outcome |-> o])

\* GET basePath/k
GetRequest ==
    /\ router.built
    /\ req = NoRequest
    /\ \E k \in Suffixes, e \in Envs :
            Serve([method |-> "GET", path |-> router.basePath \o k, env |-> e])

\* the response has gone to the caller; the request's context is dropped
Complete ==
    /\ req # NoRequest
    /\ req' = NoRequest
    /\ res' = NoResponse
    /\ trace' = <<>>
    /\ UNCHANGED <<honoActions, router>>
    /\ UNCHANGED <<concVars, passVars>>

Next ==
    \/ \E k \in Keys, schema \in Schemas : DefineAction(k, schema)
    \/ \E k \in Keys : DefineCustom(k)
    \/ \E b \in BasePaths : BuildRouter(b)
    \/ Post
    \/ GetRequest
    \/ Complete

Spec == Init /\ [][Next]_vars

(* ------------------------- reading a served request --------------------- *)

\* export keys whose member was built by defineHonoAction / is a custom app
ActionKeys ==
    {honoActions[i].key : i \in {j \in DOMAIN honoActions :
                                    honoActions[j].app \in
                                        {defineHonoAction(s) : s \in Schemas}}}
CustomKeys ==
    {honoActions[i].key : i \in {j \in DOMAIN honoActions :
                                    honoActions[j].app = getOnlyApp}}

\* the request served last was addressed to the route of key k
AddressedTo(k) == req # NoRequest /\ req.path = router.basePath \o <<k>>

\* the request served last was a POST on the route of an action
OnActionRoute ==
    /\ req # NoRequest
    /\ req.method = "POST"
    /\ \E k \in ActionKeys : AddressedTo(k)

ValidationFailed == OnActionRoute /\ ~req.result.success
HandlerReturned ==
    OnActionRoute /\ req.result.success /\ req.outcome.kind = "return"
HandlerThrew ==
    OnActionRoute /\ req.result.success /\ req.outcome.kind = "throw"
ThrewActionError ==
    HandlerThrew /\ InstanceOf(req.outcome.value, "HonoActionError")
ThrewOther ==
    HandlerThrew /\ ~InstanceOf(req.outcome.value, "HonoActionError")

\* the members of the envelope as the caller reads them from the JSON body
Data == Get(res.body, "data")
Error == Get(res.body, "error")
NonNull(v) == v.t \notin {"null", "undefined"}
IsString(v) == v.t = "string"

\* positions of the trace where the user's handler was invoked
HandlerCalls == {i \in DOMAIN trace : trace[i].ev = "handler"}

(* -------------------------------- claims -------------------------------- *)

\* C1: for every request handled by an action route, whatever the validation
\* outcome and whatever the handler does, exactly one of data and error of
\* the response envelope is non-null.
C1_ExactlyOneOfDataAndError ==
    OnActionRoute => (NonNull(Data) # NonNull(Error))

\* C2: a body failing validation is answered 400 with data null,
\* error.code INPUT_VALIDATION_ERROR and error.message the message of the
\* first reported issue, in the body as serialised to JSON.
C2_ValidationFailureEnvelope ==
    ValidationFailed =>
        /\ res.status = 400
        /\ Data = Null
        /\ Get(Error, "code") = Str("INPUT_VALIDATION_ERROR")
        /\ Get(Error, "message") = Get(req.result.issues[1], "message")

\* C3: a handler throwing HonoActionError with code C and message M, with or
\* without an issue, is answered 500 with exactly
\* {data: null, error: {code: C, message: M}}.
C3_ActionErrorEnvelope ==
    ThrewActionError =>
        res = [status |-> 500, type |-> "json",
               body |-> Literal([data |-> Null,
                                 error |-> Literal(
                                    [code |-> Get(req.outcome.value, "code"),
                                     message |-> Get(req.outcome.value, "message")])])]

C3_Witness ==
    /\ ThrewActionError
    /\ Get(req.outcome.value, "issue") # Undefined
    /\ Get(req.outcome.value, "code") = Str("LOCATION_NOT_FOUND")
    /\ res.status = 500

\* C4: a handler throwing anything that is not a HonoActionError is answered
\* 500 with {data: null, error: {code: INTERNAL_SERVER_ERROR, message:
\* 'Internal server error'}}: the same response for every thrown value.
C4_GenericErrorEnvelope ==
    ThrewOther =>
        res = [status |-> 500, type |-> "json",
               body |-> Literal([data |-> Null,
                                 error |-> Literal(
                                    [code |-> Str("INTERNAL_SERVER_ERROR"),
                                     message |-> Str("Internal server error")])])]

C4_Witness ==
    /\ ThrewOther
    /\ Get(req.outcome.value, "message") = Str("secret")
    /\ res.status = 500

\* C5: a request that passes validation and whose handler resolves is
\* answered 200 with data !== null, error === null and data the value the
\* handler returned.
C5_SuccessEnvelope ==
    HandlerReturned =>
        /\ res.status = 200
        /\ Data # Null
        /\ Error = Null
        /\ Data = JSONstringify(req.outcome.value)

\* C6: every response to a POST on an action route has status 200, 400 or
\* 500 and a JSON body with the fields data and error, a non-null error
\* carrying a string code and a string message.
C6_WireContract ==
    OnActionRoute =>
        /\ res.status \in {200, 400, 500}
        /\ res.type = "json"
        /\ {"data", "error"} \subseteq DOMAIN res.body.props
        /\ NonNull(Error) =>
              IsString(Get(Error, "code")) /\ IsString(Get(Error, "message"))

\* C7: the handler is invoked zero times when validation fails and exactly
\* once when it succeeds, also when the handler throws.
C7_HandlerInvokedOnceIffValid ==
    OnActionRoute =>
        Cardinality(HandlerCalls) = IF req.result.success THEN 1 ELSE 0

C7_Witness ==
    /\ ValidationFailed
    /\ req.outcome.kind = "throw"
    /\ res.status = 400
    /\ HandlerCalls = {}

\* C8: whenever a handler throws, the thrown value is logged before the 500
\* response is produced; no 500 response is produced without a preceding log
\* of the request's thrown error.
C8_LoggedBefore500 ==
    /\ HandlerThrew => res.status = 500
    /\ (req # NoRequest /\ res.status = 500) =>
          /\ HandlerThrew
          /\ \E i, j \in DOMAIN trace :
                /\ i < j
                /\ trace[i] = ConsoleError(req.outcome.value)
                /\ trace[j] = Responded(500)
                /\ \A n \in 1..i : trace[n].ev # "c.json"

C8_Witness ==
    /\ ThrewOther
    /\ res.status = 500
    /\ ConsoleError(req.outcome.value) \in {trace[i] : i \in DOMAIN trace}

C10_GetOnlyMemberStaysGetOnly ==
    /\ \A k \in CustomKeys : AddressedTo(k) =>
          /\ req.method = "POST" => res = NotFound /\ trace = <<>>
          /\ req.method = "GET" =>
                res = c_json(Literal([ok |-> Bool(TRUE)]), 200)
    /\ (CustomKeys # {} /\ OnActionRoute) =>
          /\ res.status \in {200, 400, 500}
          /\ req.result.success => Cardinality(HandlerCalls) = 1

C10_Witness ==
    /\ ActionKeys # {}
    /\ \E k \in CustomKeys : AddressedTo(k)
    /\ req.method = "POST"
    /\ res.status = 404

\* C11: on validation success the handler is invoked with the validator's
\* parsed output for that request, not with the raw body, and with a context
\* whose env is the env supplied with that same request.
C11_HandlerGetsParsedInputAndEnv ==
    (OnActionRoute /\ req.result.success) =>
        /\ HandlerCalls # {}
        /\ \A i \in HandlerCalls :
              /\ trace[i].input = req.result.data
              /\ trace[i].context = req.env

C11_Witness ==
    /\ OnActionRoute
    /\ req.result.success
    /\ req.body # req.result.data
    /\ req.env = "envB"
    /\ \E i \in HandlerCalls :
          trace[i] = HandlerCall(Literal([name |-> Str("John")]), "envB")

\* export keys whose action was defined without a schema
SchemalessKeys ==
    {honoActions[i].key : i \in {j \in DOMAIN honoActions :
                                    honoActions[j].app = defineHonoAction(NoSchema)}}

\* the request served last was a POST on the route of a schema-less action
OnSchemalessRoute ==
    /\ req # NoRequest
    /\ req.method = "POST"
    /\ \E k \in SchemalessKeys : AddressedTo(k)

\* C12: an action defined without a schema validates against the empty
\* object schema: its handler never receives a field of the request body
\* (its input is the empty object), and a body that is not an object is
\* answered 400 without invoking the handler.
C12_NoSchemaAllowsNoInput ==
    OnSchemalessRoute =>
        IF req.body.t = "object"
        THEN /\ HandlerCalls # {}
             /\ \A i \in HandlerCalls :
                    /\ trace[i].input = EmptyObject
                    /\ \A f \in DOMAIN req.body.props :
                            Get(trace[i].input, f) = Undefined
        ELSE /\ res.status = 400
             /\ HandlerCalls = {}

C12_Witness ==
    /\ OnSchemalessRoute
    /\ Get(req.body, "name") = Str("John")
    /\ \E i \in HandlerCalls : trace[i].input = EmptyObject
    /\ res.status = 200

(* ------------------ several requests in flight at once ------------------ *)

\* requests that can be in flight at once
MaxInFlight == 2
Slots == 1..MaxInFlight

\* defineHonoAction({schema, handler}) returns route handlers that close over
\* its two parameters and nothing else
Captured(schema) == [schema |-> schema, handler |-> "handler"]

IdleSlot == [pc |-> "idle"]

\* the requests sent while others are in flight
ConcOutcomes ==
    {[kind |-> "return", value |-> Literal([message |-> Str("Hello John")])],
     [kind |-> "throw",
      value |-> HonoActionError(Str("Test error"), Str("UNKNOWN_ERROR"), Undefined)],
     [kind |-> "throw",
      value |-> Obj("Error", [message |-> Str("db password leaked"),
                              stack |-> Str("stack")], {})]}
ConcBodies == {Literal([name |-> Str("John"), extra |-> Str("x")]), Str("text")}
ConcCases(schema) ==
    IF schema = NoSchema
    THEN {[body |-> b, result |-> safeParse(zValidator(NoSchema), [body |-> b])] :
            b \in ConcBodies}
    ELSE {c \in UserSchemaCases : c.body \in ConcBodies}
ConcRequests(schema) ==
    UNION {{[method |-> "POST", path |-> <<>>, env |-> e, body |-> c.body,
             result |-> c.result, outcome |-> o] :
                o \in IF c.result.success THEN ConcOutcomes
                      ELSE {oo \in ConcOutcomes : oo.kind = "return"}} :
            e \in Envs, c \in ConcCases(schema)}

ConcInit ==
    /\ honoActions = <<>>
    /\ router = NoRouter
    /\ req = NoRequest
    /\ res = NoResponse
    /\ trace = <<>>
    /\ \E schema \in Schemas : closure = Captured(schema)
    /\ inflight = [i \in Slots |-> IdleSlot]
    /\ config = NoConfig
    /\ pass = NoPass
    /\ astro = NoHost
    /\ fs = NoFiles

\* a request arrives at the action's POST '/' route
Receive(i, request) ==
    /\ inflight[i].pc = "idle"
    /\ inflight' = [inflight EXCEPT ![i] =
                        [pc |-> "validate", req |-> request,
                         res |-> NoResponse, trace |-> <<>>]]
    /\ UNCHANGED <<closure, servingVars, passVars>>

\* the validator has read the body and runs the hook: a rejected body is
\* answered, an accepted one is stored on the request
Validate(i) ==
    /\ inflight[i].pc = "validate"
    /\ LET s == inflight[i]
           result == safeParse(zValidator(closure.schema), s.req)
           hook == ValidatorHook(result)
       IN  inflight' = [inflight EXCEPT ![i] =
                IF hook.returned
                THEN [s EXCEPT !.pc = "done", !.res = hook.res,
                               !.trace = hook.trace]
                ELSE [s EXCEPT !.pc = "handle", !.req.result = result,
                               !.trace = hook.trace]]
    /\ UNCHANGED <<closure, servingVars, passVars>>

\* the route handler calls the user's handler and awaits it
Invoke(i) ==
    /\ inflight[i].pc = "handle"
    /\ LET s == inflight[i]
       IN  inflight' = [inflight EXCEPT ![i] =
                [s EXCEPT !.pc = "await",
                          !.trace = @ \o <<Head(ActionHandler(s.req).trace)>>]]
    /\ UNCHANGED <<closure, servingVars, passVars>>

\* the route handler as it would be if errorMessage and errorCode were
\* declared once, next to app, instead of inside the catch block
SettleHoisted(i) ==
    /\ inflight[i].pc = "await"
    /\ LET s == inflight[i]
           error == s.req.outcome.value
           before == IF "errorMessage" \in DOMAIN closure THEN closure
                     ELSE [errorMessage |-> Str("Internal server error"),
                           errorCode |-> Str("INTERNAL_SERVER_ERROR")] @@ closure
           after == IF s.req.outcome.kind = "throw"
                       /\ InstanceOf(error, "HonoActionError")
                    THEN [before EXCEPT !.errorMessage = Get(error, "message"),
                                        !.errorCode = Get(error, "code")]
                    ELSE before
       IN  /\ closure' = after
           /\ inflight' = [inflight EXCEPT ![i] =
                IF s.req.outcome.kind = "return"
                THEN [s EXCEPT !.pc = "done",
                               !.res = c_json(Envelope(s.req.outcome.value, Null), 200),
                               !.trace = @ \o <<Responded(200)>>]
                ELSE [s EXCEPT !.pc = "done",
                               !.res = c_json(Envelope(Null,
                                            Literal([message |-> after.errorMessage,
                                                     code |-> after.errorCode])), 500),
                               !.trace = @ \o <<ConsoleError(error), Responded(500)>>]]
    /\ UNCHANGED <<servingVars, passVars>>

\* the user's handler settles: its value is enveloped, or the catch block
\* answers for what it threw
Settle(i) ==
    /\ inflight[i].pc = "await"
    /\ LET s == inflight[i]
           out == ActionHandler(s.req)
       IN  inflight' = [inflight EXCEPT ![i] =
                [s EXCEPT !.pc = "done", !.res = out.res,
                          !.trace = @ \o Tail(out.trace)]]
    /\ UNCHANGED <<closure, servingVars, passVars>>

\* the response has gone to the caller
Finish(i) ==
    /\ inflight[i].pc = "done"
    /\ inflight' = [inflight EXCEPT ![i] = IdleSlot]
    /\ UNCHANGED <<closure, servingVars, passVars>>

ConcNext ==
    \/ \E i \in Slots : \E request \in ConcRequests(closure.schema) :
            Receive(i, request)
    \/ \E i \in Slots : Validate(i)
    \/ \E i \in Slots : Invoke(i)
    \/ \E i \in Slots : Settle(i)
    \/ \E i \in Slots : Finish(i)

ConcSpec == ConcInit /\ [][ConcNext]_vars

\* what the action answers to a request served with no other in flight
Alone(schema, request) ==
    compose(<<zValidator(schema), "action">>, request)

\* C13: with any number of requests in flight on an action, in any
\* interleaving of their validation, handler and response steps, the response
\* of each is the one its own body, env and handler outcome give; the wrapper
\* keeps nothing but the schema and handler it was defined with.
C13_RequestsAreIndependent ==
    /\ closure = Captured(closure.schema)
    /\ \A i \in Slots :
          inflight[i].pc = "done" =>
            LET alone == Alone(closure.schema, inflight[i].req)
            IN  /\ inflight[i].res = alone.res
                /\ inflight[i].trace = alone.trace

\* a request that threw an ordinary error is answered while another, which
\* threw an action error, has been answered and not yet left
C13_Witness ==
    \E i, j \in Slots :
        /\ i # j
        /\ inflight[i].pc = "done"
        /\ inflight[j].pc = "done"
        /\ inflight[i].req.env # inflight[j].req.env
        /\ Get(Get(inflight[i].res.body, "error"), "message") = Str("Test error")
        /\ Get(Get(inflight[j].res.body, "error"), "message")
                = Str("Internal server error")

(* ---------------- the integration: one configuration pass --------------- *)

\* the three sources of the integration that src/ holds
Variants == {"index.ts", "integration.ts", "part_008"}

\* a ?? b
Coalesce(a, b) == IF a.t \in {"null", "undefined"} THEN b ELSE a

\* a base path string, kept with its segments: '/api' is BasePathString(TRUE,
\* <<"api">>), '_astro' is BasePathString(FALSE, <<"_astro">>)
RECURSIVE Join(_)
Join(segs) ==
    IF segs = <<>> THEN ""
    ELSE IF Len(segs) = 1 THEN segs[1]
    ELSE segs[1] \o "/" \o Join(Tail(segs))
BasePathString(slash, segs) ==
    [t |-> "string", s |-> (IF slash THEN "/" ELSE "") \o Join(segs),
     slash |-> slash, segs |-> segs]

\* a file path string, kept as directory and rest; a relative path has no
\* directory
FilePath(dir, rel) == [t |-> "string", s |-> dir \o rel, dir |-> dir, rel |-> rel]
isAbsolute(p) == p.dir # ""
join(dir, p) == FilePath(dir, p.rel)

\* config.root.pathname, the directory of the built package (import.meta.url)
\* and the directory createCodegenDir() returns
ProjectRoot == "/project/"
PackageDir == "/project/node_modules/@gnosticdev/hono-actions/dist/"
CodegenDir == "/project/.astro/integrations/_gnosticdev_hono-actions/"

reservedRoutes == {"_astro", "_actions", "_server_islands"}

ACTION_PATTERNS ==
    <<"src/server/actions.ts", "src/hono/actions.ts", "src/hono/index.ts",
      "src/hono.ts">>

SUPPORTED_ADAPTERS == {"@astrojs/cloudflare"}
isSupportedAdapter(adapter) == adapter.s \in SUPPORTED_ADAPTERS

VIRTUAL_MODULE_ID_CLIENT == "@gnosticdev/hono-actions/client"
VIRTUAL_MODULE_ID_ROUTER == "virtual:hono-actions/router"

\* the text of a log line or of an Error, with the list it enumerates
Message(text, list) == [text |-> text, list |-> list]
NoError == Message("", <<>>)

\* options.basePath: absent, or a string
BasePathOptions ==
    {Undefined, BasePathString(TRUE, <<"api">>),
     BasePathString(FALSE, <<"_astro">>), BasePathString(FALSE, <<"_actions">>),
     BasePathString(FALSE, <<"_server_islands">>),
     BasePathString(TRUE, <<"_astro">>), BasePathString(FALSE, <<"_astro", "x">>)}

\* options.actionsPath: absent, relative, absolute, or the empty string
ActionsPathOptions ==
    {Undefined, FilePath("", "src/custom/actions.ts"),
     FilePath("/elsewhere/", "actions.ts"), FilePath("", "")}

\* config.adapter?.name
AdapterOptions == {Undefined, Str("@astrojs/cloudflare"), Str("@astrojs/node")}

Range(seq) == {seq[i] : i \in DOMAIN seq}

\* the inputs of a pass: the source in use, the options, which conventional
\* files the project has, and the adapter of the host configuration
Configs ==
    [variant : Variants,
     options : [basePath : BasePathOptions, actionsPath : ActionsPathOptions],
     existing : SUBSET Range(ACTION_PATTERNS),
     adapter : AdapterOptions]

\* the orders in which a file search may report the members of a set
Orders(S) ==
    {f \in [1..Cardinality(S) -> S] : \A i, j \in DOMAIN f : f[i] = f[j] => i = j}

EmptyHost ==
    [watched |-> {}, virtualImports |-> <<>>, routes |-> <<>>, types |-> <<>>,
     logs |-> <<>>]
EmptyDisk == [codegenDir |-> FALSE, files |-> [n \in {} |-> Undefined]]

\* what a pass finds when it starts: the disk as it is, and what the pass
\* before it, if any, registered with its host
Found(disk, host, hook) ==
    [fs |-> disk, virtualImports |-> host.virtualImports,
     routes |-> host.routes, hook |-> hook]

StartOfPass ==
    [pc |-> "start", thrown |-> NoError, basePath |-> Undefined,
     hook |-> "pending", files |-> <<>>, resolvedActionsPath |-> Undefined,
     astroHandlerContent |-> Undefined, events |-> <<>>,
     n |-> 1, previous |-> Found(EmptyDisk, EmptyHost, "none")]

PassInit ==
    /\ honoActions = <<>>
    /\ router = NoRouter
    /\ req = NoRequest
    /\ res = NoResponse
    /\ trace = <<>>
    /\ closure = NoClosure
    /\ inflight = NoSlots
    /\ config \in Configs
    /\ pass = StartOfPass
    /\ astro = EmptyHost
    /\ fs = EmptyDisk

\* setup as it would be without the reserved-route check
setupUnchecked(options) ==
    [thrown |-> NoError, basePath |-> Coalesce(options.basePath, BasePathString(TRUE, <<"api">>))]

\* setup({options}): the base path is fixed, and refused when reserved, before
\* the hooks are returned
setup(options) ==
    LET basePath == Coalesce(options.basePath, BasePathString(TRUE, <<"api">>))
    IN  IF basePath.s \in reservedRoutes
        THEN [thrown |-> Message("Base path " \o basePath.s
                                    \o " is reserved by Astro; pick another (e.g. /api2).",
                                 <<>>),
              basePath |-> basePath]
        ELSE [thrown |-> NoError, basePath |-> basePath]

\* the host calls the integration's setup
Setup ==
    /\ pass.pc = "start"
    /\ LET out == setup(config.options)
       IN  pass' = IF out.thrown # NoError
                   THEN [pass EXCEPT !.pc = "failed", !.thrown = out.thrown]
                   ELSE [pass EXCEPT !.pc = "hooks", !.basePath = out.basePath]
    /\ UNCHANGED <<config, astro, fs, servingVars, concVars>>

Log(level, message) == [level |-> level, message |-> message]

\* the branch taken when there is no actions path, as it would be if every
\* source threw
noActionsFoundThrows(variant) ==
    [thrown |-> Message("No actions found. Create one of:", ACTION_PATTERNS),
     logs |-> <<>>]

\* the same branch as it would be if every source warned and returned
noActionsFoundWarns(variant) ==
    [thrown |-> NoError,
     logs |-> <<Log("warn", Message("No actions found. Create one of:",
                                    ACTION_PATTERNS))>>]

\* if (!actionsPath): index.ts throws, the other two warn and return; the
\* message lists ACTION_PATTERNS
noActionsFound(variant) ==
    LET message == Message("No actions found. Create one of:", ACTION_PATTERNS)
    IN  IF variant = "index.ts"
        THEN [thrown |-> message, logs |-> <<>>]
        ELSE [thrown |-> NoError, logs |-> <<Log("warn", message)>>]

\* index.ts: path.isAbsolute(actionsPath) ? actionsPath : path.join(root, ..)
\* the other two: createResolver(import.meta.url).resolve(actionsPath)
resolveActionsPath(variant, actionsPath) ==
    IF isAbsolute(actionsPath) THEN actionsPath
    ELSE IF variant = "index.ts" THEN join(ProjectRoot, actionsPath)
    ELSE join(PackageDir, actionsPath)

\* path.relative(from, to), a forward-slash path
relative(from, to) == [t |-> "string", from |-> from, to |-> to]

\* the generators of integration-files, as the calls the hook makes
generateRouter(basePath, relativeActionsPath) ==
    [generator |-> "generateRouter", basePath |-> basePath.s,
     relativeActionsPath |-> relativeActionsPath]
getAstroHandler(adapter) ==
    [generator |-> "getAstroHandler", adapter |-> adapter]
generateAstroHandler(adapter) ==
    [generator |-> "generateAstroHandler", adapter |-> adapter]
getHonoClient(port) == [generator |-> "getHonoClient", port |-> port]

\* a call the hooks make on the host or on the file system, in the order made
Event(op, arg) == [op |-> op, arg |-> arg]

\* fs.writeFile(path, ...) as it would be without await: the hook goes on
\* while the write is pending
UnawaitedWrite(path, ok) == <<Event("writeFile", path.s)>>

\* await fs.writeFile(path, ...): the call, and how its promise settles
\* before the hook goes on
AwaitedWrite(path, ok) ==
    <<Event("writeFile", path.s),
      Event(IF ok THEN "fulfilled" ELSE "rejected", path.s)>>

\* createCodegenDir() as it would be if it were called at the top of the
\* hook, above the check for an actions path
createCodegenDirHoisted(disk, found) == [disk EXCEPT !.codegenDir = TRUE]

\* const codeGenDir = createCodegenDir(): called only past the check for an
\* actions path; the directory exists afterwards, its files are untouched
createCodegenDir(disk, found) ==
    IF found THEN [disk EXCEPT !.codegenDir = TRUE] ELSE disk

\* astro:config:setup up to the first file write: the file search has
\* reported `files`; the actions path is chosen, resolved and watched, and the
\* codegen directory is created
Discover(order) ==
    /\ pass.pc = "hooks"
    /\ LET files == [i \in DOMAIN order |-> FilePath(ProjectRoot, order[i])]
           actionsPath == Coalesce(config.options.actionsPath,
                                   IF files = <<>> THEN Undefined ELSE files[1])
       IN  IF ~Truthy(actionsPath)
           THEN LET out == noActionsFound(config.variant)
                IN  /\ pass' = IF out.thrown # NoError
                               THEN [pass EXCEPT !.pc = "failed", !.hook = "threw",
                                                 !.thrown = out.thrown,
                                                 !.files = files]
                               ELSE [pass EXCEPT !.pc = "setupDone",
                                                 !.hook = "returned",
                                                 !.files = files]
                    /\ astro' = [astro EXCEPT !.logs = @ \o out.logs]
                    /\ fs' = createCodegenDir(fs, FALSE)
           ELSE LET resolvedActionsPath ==
                        resolveActionsPath(config.variant, actionsPath)
                IN  /\ pass' = [pass EXCEPT !.pc = "writeRouter", !.files = files,
                                    !.resolvedActionsPath = resolvedActionsPath,
                                    !.events = @ \o
                                        <<Event("addWatchFile", resolvedActionsPath.s),
                                          Event("createCodegenDir", CodegenDir)>>]
                    /\ astro' = [astro EXCEPT
                            !.watched = @ \cup {resolvedActionsPath},
                            !.logs = @ \o <<Log("info",
                                    Message("Found actions: ",
                                            <<relative(ProjectRoot,
                                                       resolvedActionsPath)>>))>>]
                    /\ fs' = createCodegenDir(fs, TRUE)
    /\ UNCHANGED <<config, servingVars, concVars>>

\* fs.writeFile(path, content, 'utf-8'): the file holds content afterwards
writeFile(disk, path, content) ==
    [disk EXCEPT !.files = (path.s :> content) @@ @]

\* a rejected write as it would be if the hook caught the rejection, and
\* returned
WriteFailedSwallowed(path) ==
    /\ pass' = [pass EXCEPT !.pc = "setupDone", !.hook = "returned",
                    !.events = @ \o AwaitedWrite(path, FALSE)]
    /\ UNCHANGED <<astro, fs>>

\* a rejected write as it would be if the hook logged the rejection and went
\* on with its next statement
WriteFailedContinues(path) ==
    /\ pass' = [pass EXCEPT
                    !.pc = CASE pass.pc = "writeRouter" -> "writeApi"
                             [] pass.pc = "writeApi" -> "writeClient"
                             [] OTHER -> "setupDone",
                    !.events = @ \o AwaitedWrite(path, FALSE)]
    /\ UNCHANGED <<astro, fs>>

\* an awaited write rejects: the hook rejects with the same error
WriteFailed(path) ==
    /\ pass' = [pass EXCEPT !.pc = "failed", !.hook = "threw",
                    !.thrown = Message("EACCES: permission denied, open " \o path.s,
                                       <<>>),
                    !.events = @ \o AwaitedWrite(path, FALSE)]
    /\ UNCHANGED <<astro, fs>>

\* the adapter check as it would be if a missing adapter fell back to the
\* Cloudflare handler
pickAstroHandlerDefaults(variant, adapter) ==
    [thrown |-> NoError, returned |-> FALSE,
     content |-> getAstroHandler(Str("cloudflare")), logs |-> <<>>]

\* the adapter check between the first and the second write
pickAstroHandler(variant, adapter) ==
    IF ~Truthy(adapter)
    THEN IF variant = "part_008"
         THEN [thrown |-> NoError, returned |-> TRUE, content |-> Undefined,
               logs |-> <<Log("error", Message("No Astro adapter found. Add one of:",
                                               <<"@astrojs/cloudflare">>))>>]
         ELSE [thrown |-> Message("No Astro adapter found", <<>>),
               returned |-> FALSE, content |-> Undefined, logs |-> <<>>]
    ELSE IF variant = "part_008"
         THEN IF isSupportedAdapter(adapter)
              THEN [thrown |-> NoError, returned |-> FALSE,
                    content |-> generateAstroHandler(adapter), logs |-> <<>>]
              ELSE [thrown |-> Message("Unsupported adapter: " \o adapter.s, <<>>),
                    returned |-> FALSE, content |-> Undefined, logs |-> <<>>]
         ELSE [thrown |-> NoError, returned |-> FALSE,
               content |-> getAstroHandler(Str("cloudflare")), logs |-> <<>>]

\* await fs.writeFile(routerPathAbs, routerContent), then the adapter check
WriteRouter(ok) ==
    /\ pass.pc = "writeRouter"
    /\ LET routerPathAbs == FilePath(CodegenDir, "router.ts")
           relFromGenToActions == relative(CodegenDir, pass.resolvedActionsPath)
           routerContent == generateRouter(pass.basePath, relFromGenToActions)
           out == pickAstroHandler(config.variant, config.adapter)
       IN  IF ~ok THEN WriteFailed(routerPathAbs)
           ELSE /\ fs' = writeFile(fs, routerPathAbs, routerContent)
                /\ astro' = [astro EXCEPT !.logs = @ \o out.logs]
                /\ pass' = IF out.thrown # NoError
                           THEN [pass EXCEPT !.pc = "failed", !.hook = "threw",
                                             !.thrown = out.thrown,
                                             !.events = @ \o
                                                AwaitedWrite(routerPathAbs, TRUE)]
                           ELSE IF out.returned
                           THEN [pass EXCEPT !.pc = "setupDone",
                                             !.hook = "returned",
                                             !.events = @ \o
                                                AwaitedWrite(routerPathAbs, TRUE)]
                           ELSE [pass EXCEPT !.pc = "writeApi",
                                             !.astroHandlerContent = out.content,
                                             !.events = @ \o
                                                AwaitedWrite(routerPathAbs, TRUE)]
    /\ UNCHANGED <<config, servingVars, concVars>>

\* await fs.writeFile(astroHandlerPathAbs, astroHandlerContent)
WriteApi(ok) ==
    /\ pass.pc = "writeApi"
    /\ LET astroHandlerPathAbs == FilePath(CodegenDir, "api.ts")
       IN  IF ~ok THEN WriteFailed(astroHandlerPathAbs)
           ELSE /\ fs' = writeFile(fs, astroHandlerPathAbs, pass.astroHandlerContent)
                /\ pass' = [pass EXCEPT !.pc = "writeClient",
                                    !.events = @ \o
                                        AwaitedWrite(astroHandlerPathAbs, TRUE)]
                /\ astro' = astro
    /\ UNCHANGED <<config, servingVars, concVars>>

\* the imports as they would be if only the client module were registered
importsClientOnly(clientPathAbs, routerPathAbs) ==
    {[id |-> VIRTUAL_MODULE_ID_CLIENT, exportAllFrom |-> clientPathAbs.s]}

\* imports: { [VIRTUAL_MODULE_ID_CLIENT]: `export * from '${clientPathAbs}';`,
\*            [VIRTUAL_MODULE_ID_ROUTER]: `export * from '${routerPathAbs}';` }
imports(clientPathAbs, routerPathAbs) ==
    {[id |-> VIRTUAL_MODULE_ID_CLIENT, exportAllFrom |-> clientPathAbs.s],
     [id |-> VIRTUAL_MODULE_ID_ROUTER, exportAllFrom |-> routerPathAbs.s]}

\* await fs.writeFile(clientPathAbs, clientContent), then the virtual imports
\* are registered and the catch-all route is injected
WriteClient(ok) ==
    /\ pass.pc = "writeClient"
    /\ LET clientPathAbs == FilePath(CodegenDir, "client.ts")
           routerPathAbs == FilePath(CodegenDir, "router.ts")
           astroHandlerPathAbs == FilePath(CodegenDir, "api.ts")
           pattern == pass.basePath.s \o "/[...slug]"
       IN  IF ~ok THEN WriteFailed(clientPathAbs)
           ELSE /\ fs' = writeFile(fs, clientPathAbs,
                                   getHonoClient("config.server.port"))
                /\ astro' = [astro EXCEPT
                        !.virtualImports =
                            Append(@, imports(clientPathAbs, routerPathAbs)),
                        !.routes = Append(@, [pattern |-> pattern,
                                              entrypoint |-> astroHandlerPathAbs.s,
                                              prerender |-> FALSE]),
                        !.logs = @ \o
                            <<Log("info", Message("Hono Actions virtual imports added",
                                                  <<>>)),
                              Log("info", Message("Hono Actions route mounted at ",
                                                  <<pattern>>))>>]
                /\ pass' = [pass EXCEPT !.pc = "setupDone", !.hook = "completed",
                                    !.events = @ \o AwaitedWrite(clientPathAbs, TRUE)
                                        \o <<Event("addVirtualImports",
                                                   "@gnosticdev/hono-actions"),
                                             Event("injectRoute", pattern)>>]
    /\ UNCHANGED <<config, servingVars, concVars>>

\* injectTypes({filename, content}): the modules the content declares and the
\* generated files it imports
TypesFile(filename, declares, importsFrom) ==
    [filename |-> filename, declares |-> declares, importsFrom |-> importsFrom]

\* astro:config:done
ConfigDone ==
    /\ pass.pc = "setupDone"
    /\ LET actionsTypes == TypesFile("actions.d.ts",
                                     {"@gnosticdev/hono-actions/actions"}, {})
           clientTypes ==
                IF config.variant = "index.ts"
                THEN TypesFile("types.d.ts",
                               {VIRTUAL_MODULE_ID_ROUTER, VIRTUAL_MODULE_ID_CLIENT},
                               {"./router.ts", "./client"})
                ELSE TypesFile("types.d.ts", {VIRTUAL_MODULE_ID_CLIENT}, {"./client"})
       IN  IF config.variant # "part_008"
           THEN astro' = [astro EXCEPT !.types = @ \o <<actionsTypes, clientTypes>>]
           ELSE IF ~Truthy(config.adapter)
           THEN astro' = [astro EXCEPT
                    !.types = Append(@, actionsTypes),
                    !.logs = Append(@, Log("warn", Message("No adapter found...",
                                                           <<>>)))]
           ELSE IF config.adapter.s # "@astrojs/cloudflare"
           THEN astro' = [astro EXCEPT
                    !.types = Append(@, actionsTypes),
                    !.logs = Append(@, Log("warn", Message("Unsupported adapter...",
                                                           <<>>)))]
           ELSE astro' = [astro EXCEPT !.types = @ \o <<actionsTypes, clientTypes>>]
    /\ pass' = [pass EXCEPT !.pc = "done"]
    /\ UNCHANGED <<config, fs, servingVars, concVars>>

PassNext ==
    \/ Setup
    \/ \E order \in Orders(config.existing) : Discover(order)
    \/ \E ok \in BOOLEAN : WriteRouter(ok)
    \/ \E ok \in BOOLEAN : WriteApi(ok)
    \/ \E ok \in BOOLEAN : WriteClient(ok)
    \/ ConfigDone

PassSpec == PassInit /\ [][PassNext]_vars

(* ---------------------- reading a configuration pass -------------------- *)

\* nothing has been asked of the host and nothing is on disk
NothingDone == astro = EmptyHost /\ fs = EmptyDisk

\* the names of the files written to the codegen directory
Written(name) == (CodegenDir \o name) \in DOMAIN fs.files

\* C14: for every configured base path that is one of _astro, _actions and
\* _server_islands, setup throws before the hooks are returned: no file is
\* written, no virtual module registered, no type declaration injected and no
\* route registered.
C14_ReservedBasePathThrowsInSetup ==
    (/\ config.options.basePath # Undefined
     /\ config.options.basePath.s \in {"_astro", "_actions", "_server_islands"}) =>
        /\ pass.pc \in {"start", "failed"}
        /\ pass.pc = "failed" => pass.thrown # NoError
        /\ pass.hook = "pending"
        /\ NothingDone

C14_Witness ==
    /\ config.options.basePath = BasePathString(FALSE, <<"_server_islands">>)
    /\ pass.pc = "failed"
    /\ pass.thrown.text =
        "Base path _server_islands is reserved by Astro; pick another (e.g. /api2)."
    /\ NothingDone

\* the first part of astro:config:setup has run
HookRan ==
    /\ pass.pc \notin {"start", "hooks"}
    /\ pass.pc = "failed" => pass.hook = "threw"

\* the existing conventional file that matches the earliest pattern
EarliestExisting ==
    LET first == CHOOSE i \in DOMAIN ACTION_PATTERNS :
                    /\ ACTION_PATTERNS[i] \in config.existing
                    /\ \A j \in 1..(i - 1) : ACTION_PATTERNS[j] \notin config.existing
    IN  FilePath(ProjectRoot, ACTION_PATTERNS[first])

Warnings == {i \in DOMAIN astro.logs : astro.logs[i].level = "warn"}

\* C15: with no actionsPath override, when several of the four conventional
\* files exist, the file used is the one matching the earliest pattern of
\* ACTION_PATTERNS, whatever order the file search reports them in; exactly
\* one file is used and the others are ignored without a warning.
C15_EarliestPatternWins ==
    (/\ HookRan
     /\ config.options.actionsPath = Undefined
     /\ Cardinality(config.existing) > 1) =>
        /\ pass.resolvedActionsPath = EarliestExisting
        /\ astro.watched = {EarliestExisting}
        /\ Warnings = {}

\* 'No actions found' was logged or thrown
NoActionsReported ==
    \/ pass.thrown.text = "No actions found. Create one of:"
    \/ \E i \in DOMAIN astro.logs :
            astro.logs[i].message.text = "No actions found. Create one of:"

\* the file the generated router imports, once router.ts is written
RouterImports ==
    fs.files[CodegenDir \o "router.ts"].relativeActionsPath.to

\* C16: when an actionsPath override is configured it is the file used for
\* watching and generation whatever discovery finds: no discovered file
\* replaces it, and no 'No actions found' warning or error is produced, even
\* when discovery finds nothing.
C16_OverrideWins ==
    (HookRan /\ config.options.actionsPath # Undefined) =>
        /\ ~NoActionsReported
        /\ pass.resolvedActionsPath # Undefined
        /\ pass.resolvedActionsPath.rel = config.options.actionsPath.rel
        /\ pass.resolvedActionsPath \notin Range(pass.files)
        /\ astro.watched = {pass.resolvedActionsPath}
        /\ Written("router.ts") => RouterImports = pass.resolvedActionsPath

\* no conventional actions file exists and no override is configured
NoActionsFile == config.existing = {} /\ config.options.actionsPath = Undefined

\* the warning that lists the four conventional paths
NoActionsWarning ==
    [level |-> "warn",
     message |-> [text |-> "No actions found. Create one of:",
                  list |-> <<"src/server/actions.ts", "src/hono/actions.ts",
                             "src/hono/index.ts", "src/hono.ts">>]]

\* C17: in the lenient sources, when no conventional actions file exists and
\* no override is configured, astro:config:setup emits exactly one warning,
\* which lists the four conventional paths, injects no route and returns
\* without throwing.
C17_LenientWarnsOnceAndReturns ==
    (HookRan /\ NoActionsFile /\ config.variant \in {"integration.ts", "part_008"}) =>
        /\ pass.hook = "returned"
        /\ pass.thrown = NoError
        /\ astro.routes = <<>>
        /\ pass.pc = "setupDone" => astro.logs = <<NoActionsWarning>>
        /\ Cardinality({i \in DOMAIN astro.logs : astro.logs[i] = NoActionsWarning}) = 1

C17_Witness ==
    /\ NoActionsFile
    /\ config.variant = "part_008"
    /\ pass.pc = "setupDone"
    /\ astro.logs = <<NoActionsWarning>>
    /\ astro.routes = <<>>

\* C18: in the strict source (index.ts), when no conventional actions file
\* exists and no override is configured, astro:config:setup throws an error
\* whose message lists the four conventional paths, before any watch file is
\* added, the codegen directory is created, any file is written, any virtual
\* module is registered or any route is injected.
C18_StrictThrowsFirst ==
    (HookRan /\ NoActionsFile /\ config.variant = "index.ts") =>
        /\ pass.pc = "failed"
        /\ pass.thrown = NoActionsWarning.message
        /\ astro.watched = {}
        /\ ~fs.codegenDir
        /\ DOMAIN fs.files = {}
        /\ astro.virtualImports = <<>>
        /\ astro.routes = <<>>

C18_Witness ==
    /\ NoActionsFile
    /\ config.variant = "index.ts"
    /\ pass.hook = "threw"
    /\ pass.thrown.list = ACTION_PATTERNS
    /\ NothingDone

\* the adapter of the host configuration is a supported deployment target
SupportedAdapterConfigured == config.adapter = Str("@astrojs/cloudflare")

\* C19: after an astro:config:setup that completes with an actions file
\* resolved and a supported adapter configured, router.ts, api.ts and
\* client.ts exist in the codegen directory, exactly two virtual modules are
\* registered (the client id re-exporting the written client.ts, the router
\* id re-exporting the written router.ts), and exactly one route is injected,
\* with pattern basePath/[...slug] (basePath as configured, '/api' when not),
\* entrypoint the written api.ts and prerender false.
C19_CompletedPassEffects ==
    (pass.hook = "completed" /\ SupportedAdapterConfigured) =>
        /\ pass.resolvedActionsPath # Undefined
        /\ Written("router.ts") /\ Written("api.ts") /\ Written("client.ts")
        /\ astro.virtualImports =
            <<{[id |-> "@gnosticdev/hono-actions/client",
                exportAllFrom |-> CodegenDir \o "client.ts"],
               [id |-> "virtual:hono-actions/router",
                exportAllFrom |-> CodegenDir \o "router.ts"]}>>
        /\ astro.routes =
            <<[pattern |-> (IF config.options.basePath = Undefined THEN "/api"
                            ELSE config.options.basePath.s) \o "/[...slug]",
               entrypoint |-> CodegenDir \o "api.ts",
               prerender |-> FALSE]>>

C19_Witness ==
    /\ pass.hook = "completed"
    /\ SupportedAdapterConfigured
    /\ config.options.basePath = Undefined
    /\ config.variant = "part_008"
    /\ Len(astro.routes) = 1
    /\ astro.routes[1].pattern = "/api/[...slug]"
    /\ DOMAIN fs.files = {CodegenDir \o "router.ts", CodegenDir \o "api.ts",
                          CodegenDir \o "client.ts"}

\* the deployment target an adapter name stands for
Target(name) ==
    CASE name \in {"@astrojs/cloudflare", "cloudflare"} -> "cloudflare"
      [] name \in {"@astrojs/node", "node"} -> "node"
      [] OTHER -> name

\* an adapter is configured and it is not a supported deployment target
UnsupportedAdapterConfigured ==
    config.adapter # Undefined /\ config.adapter.s # "@astrojs/cloudflare"

\* C20: when the configured adapter is not a supported deployment target, the
\* pass fails at the adapter check with the error 'Unsupported adapter:
\* <name>' naming it, and api.ts is not written, no virtual module is
\* registered and no route injected; an api.ts that is written is generated
\* for the target the host configured, never for another one.
C20_UnsupportedAdapterFailsFast ==
    /\ (UnsupportedAdapterConfigured /\ HookRan /\ Written("router.ts")) =>
            /\ pass.pc = "failed"
            /\ pass.thrown.text = "Unsupported adapter: " \o config.adapter.s
            /\ ~Written("api.ts")
            /\ astro.virtualImports = <<>>
            /\ astro.routes = <<>>
    /\ Written("api.ts") =>
            /\ config.adapter # Undefined
            /\ Target(fs.files[CodegenDir \o "api.ts"].adapter.s)
                    = Target(config.adapter.s)

\* positions of the event log where a call was made
At(op, arg) ==
    {i \in DOMAIN pass.events : pass.events[i] = Event(op, CodegenDir \o arg)}
Calls(op) == {i \in DOMAIN pass.events : pass.events[i].op = op}
Before(I, J) == \A j \in J : \E i \in I : i < j

\* C21: astro:config:setup writes router.ts, api.ts and client.ts strictly in
\* that order, each write completing before the next begins; the virtual
\* modules are registered only after the third write completes, and the route
\* is injected only after the registration.
C21_WritesInOrder ==
    /\ \A i \in Calls("writeFile") :
          /\ i + 1 \in DOMAIN pass.events
          /\ pass.events[i + 1].op \in {"fulfilled", "rejected"}
          /\ pass.events[i + 1].arg = pass.events[i].arg
    /\ Before(At("fulfilled", "router.ts"), At("writeFile", "api.ts"))
    /\ Before(At("fulfilled", "api.ts"), At("writeFile", "client.ts"))
    /\ Before(At("fulfilled", "client.ts"), Calls("addVirtualImports"))
    /\ Before(Calls("addVirtualImports"), Calls("injectRoute"))
    /\ \A name \in {"router.ts", "api.ts", "client.ts"} :
          Cardinality(At("writeFile", name)) <= 1

C21_Witness ==
    /\ pass.hook = "completed"
    /\ [i \in DOMAIN pass.events |-> pass.events[i].op] =
        <<"addWatchFile", "createCodegenDir", "writeFile", "fulfilled",
          "writeFile", "fulfilled", "writeFile", "fulfilled",
          "addVirtualImports", "injectRoute">>
    /\ At("writeFile", "router.ts") = {3}
    /\ At("writeFile", "api.ts") = {5}
    /\ At("writeFile", "client.ts") = {7}

\* C22: if any one of the three file writes of astro:config:setup fails, the
\* hook fails with that same failure, the failed write is attempted only
\* once, no later write is attempted, no virtual module is registered and no
\* route is injected.
C22_WriteFailurePropagates ==
    \A i \in Calls("rejected") :
        /\ pass.hook = "threw"
        /\ pass.pc = "failed"
        /\ pass.thrown =
            [text |-> "EACCES: permission denied, open " \o pass.events[i].arg,
             list |-> <<>>]
        /\ i = Len(pass.events)
        /\ Cardinality({j \in Calls("writeFile") :
                            pass.events[j].arg = pass.events[i].arg}) = 1
        /\ Calls("addVirtualImports") = {}
        /\ Calls("injectRoute") = {}
        /\ astro.virtualImports = <<>>
        /\ astro.routes = <<>>

C22_Witness ==
    /\ At("rejected", "api.ts") # {}
    /\ pass.hook = "threw"
    /\ Written("router.ts")
    /\ ~Written("api.ts")
    /\ At("writeFile", "client.ts") = {}

\* setup has returned the hooks
SetupReturned == pass.basePath # Undefined

\* C23: after a setup that does not throw, the base path does not collide
\* with a reserved route prefix: whether it has a leading slash or not, and
\* further segments or not, the first path segment of the injected pattern
\* basePath/[...slug] is none of _astro, _actions and _server_islands.
C23_BasePathNeverReserved ==
    /\ SetupReturned =>
            Head(pass.basePath.segs) \notin {"_astro", "_actions", "_server_islands"}
    /\ \A i \in DOMAIN astro.routes :
            /\ astro.routes[i].pattern = pass.basePath.s \o "/[...slug]"
            /\ Head(pass.basePath.segs)
                    \notin {"_astro", "_actions", "_server_islands"}

\* the generated file was written successfully earlier in this pass than
\* every one of the calls at positions J
WrittenBefore(name, J) == Before(At("fulfilled", name), J)

\* C24: at every point of a configuration pass, if the catch-all route has
\* been injected then router.ts, api.ts and client.ts have been written
\* successfully in that pass and both virtual modules are registered; if the
\* virtual modules have been registered then client.ts and router.ts have been
\* written. This holds on every path through the hook.
C24_RouteImpliesFilesAndModules ==
    /\ WrittenBefore("router.ts", Calls("injectRoute"))
    /\ WrittenBefore("api.ts", Calls("injectRoute"))
    /\ WrittenBefore("client.ts", Calls("injectRoute"))
    /\ Before(Calls("addVirtualImports"), Calls("injectRoute"))
    /\ WrittenBefore("client.ts", Calls("addVirtualImports"))
    /\ WrittenBefore("router.ts", Calls("addVirtualImports"))
    /\ astro.routes # <<>> =>
            /\ Calls("injectRoute") # {}
            /\ Written("router.ts") /\ Written("api.ts") /\ Written("client.ts")
            /\ \E i \in DOMAIN astro.virtualImports :
                    {m.id : m \in astro.virtualImports[i]} =
                        {"@gnosticdev/hono-actions/client",
                         "virtual:hono-actions/router"}
    /\ astro.virtualImports # <<>> =>
            /\ Calls("addVirtualImports") # {}
            /\ Written("client.ts") /\ Written("router.ts")

C24_Witness ==
    /\ pass.pc = "done"
    /\ config.variant = "integration.ts"
    /\ Len(astro.routes) = 1
    /\ Len(astro.virtualImports) = 1
    /\ Written("router.ts") /\ Written("api.ts") /\ Written("client.ts")

\* the injected declarations of the client module that refer to ./client
ClientTypes ==
    {i \in DOMAIN astro.types :
        /\ astro.types[i].filename = "types.d.ts"
        /\ "@gnosticdev/hono-actions/client" \in astro.types[i].declares
        /\ "./client" \in astro.types[i].importsFrom}

\* C25: in every configuration pass, if astro:config:done injects types.d.ts
\* declaring the client module in terms of the generated ./client file, then
\* astro:config:setup of that pass wrote client.ts; client types are never
\* injected for a client that was not generated.
C25_ClientTypesOnlyWithClient ==
    ClientTypes # {} => At("fulfilled", "client.ts") # {}

(* ------------------- the configuration pass, run again ------------------ *)

\* configuration passes run one after the other on the same project
MaxPasses == 2

\* a codegen directory left behind by an earlier run of another configuration
StaleDisk ==
    [codegenDir |-> TRUE,
     files |-> [n \in {CodegenDir \o "router.ts", CodegenDir \o "api.ts",
                       CodegenDir \o "client.ts"} |-> Str("stale")]]

\* the configurations that are run again
RerunConfigs ==
    {c \in Configs :
        /\ Cardinality(c.existing) <= 2
        /\ c.options.basePath \in {Undefined, BasePathString(TRUE, <<"api">>)}
        /\ c.options.actionsPath
                \in {Undefined, FilePath("", "src/custom/actions.ts")}}

RerunInit ==
    /\ honoActions = <<>>
    /\ router = NoRouter
    /\ req = NoRequest
    /\ res = NoResponse
    /\ trace = <<>>
    /\ closure = NoClosure
    /\ inflight = NoSlots
    /\ config \in RerunConfigs
    /\ \E disk \in {EmptyDisk, StaleDisk} :
            /\ fs = disk
            /\ pass = [StartOfPass EXCEPT !.previous = Found(disk, EmptyHost, "none")]
    /\ astro = EmptyHost

\* the host is started again on the same project and configuration: the
\* integration is set up anew with a fresh host, and the disk is as the pass
\* before left it
NextPass ==
    /\ pass.pc \in {"done", "failed"}
    /\ pass.n < MaxPasses
    /\ pass' = [StartOfPass EXCEPT !.n = pass.n + 1,
                                   !.previous = Found(fs, astro, pass.hook)]
    /\ astro' = EmptyHost
    /\ UNCHANGED <<config, fs, servingVars, concVars>>

RerunNext ==
    \/ Setup
    \/ \E order \in Orders(config.existing) : Discover(order)
    \/ \E ok \in BOOLEAN : WriteRouter(ok)
    \/ \E ok \in BOOLEAN : WriteApi(ok)
    \/ \E ok \in BOOLEAN : WriteClient(ok)
    \/ ConfigDone
    \/ NextPass

RerunSpec == RerunInit /\ [][RerunNext]_vars

(* ------------------------ reading repeated passes ----------------------- *)

\* the disk is as this pass found it
DiskUntouched == fs = pass.previous.fs

\* C26: in the lenient sources (integration.ts and the later variant), when
\* astro:config:setup finds no actions file it changes nothing besides
\* emitting the warning: no watch file is added, the codegen directory is not
\* created, none of router.ts, api.ts, client.ts is written or overwritten (a
\* disk that held them holds them unchanged), and no virtual module is
\* registered.
C26_LenientNoActionsChangesNothing ==
    (/\ config.variant \in {"integration.ts", "part_008"}
     /\ NoActionsFile
     /\ HookRan) =>
        /\ astro.watched = {}
        /\ DiskUntouched
        /\ pass.events = <<>>
        /\ astro.virtualImports = <<>>
        /\ pass.pc = "setupDone" =>
                astro = [EmptyHost EXCEPT !.logs = <<NoActionsWarning>>]

C26_Witness ==
    /\ config.variant = "integration.ts"
    /\ NoActionsFile
    /\ pass.pc = "setupDone"
    /\ pass.hook = "returned"
    /\ fs = StaleDisk
    /\ astro.logs = <<NoActionsWarning>>
    /\ astro.watched = {}

\* the host configuration has no adapter
NoAdapter == config.adapter = Undefined

\* router.ts has been written in this pass
RouterWritten == At("fulfilled", "router.ts") # {}

\* the generated file is on disk exactly as this pass found it
LeftAsFound(name) ==
    LET path == CodegenDir \o name
    IN  /\ Written(name) <=> path \in DOMAIN pass.previous.fs.files
        /\ Written(name) => fs.files[path] = pass.previous.fs.files[path]

\* C27: when the host configuration has no adapter, astro:config:setup stops
\* after router.ts has been written and before api.ts or client.ts is written:
\* integration.ts throws 'No Astro adapter found', the later variant logs an
\* error and returns. No virtual module is registered, no route is injected,
\* and the router.ts just written is left in place.
C27_NoAdapterStopsAfterRouter ==
    /\ NoAdapter => pass.pc \notin {"writeApi", "writeClient"}
    /\ (NoAdapter /\ RouterWritten) =>
        /\ config.variant = "integration.ts" =>
                /\ pass.pc = "failed"
                /\ pass.hook = "threw"
                /\ pass.thrown = [text |-> "No Astro adapter found", list |-> <<>>]
        /\ config.variant = "part_008" =>
                /\ pass.hook = "returned"
                /\ pass.thrown = NoError
                /\ \E i \in DOMAIN astro.logs :
                        /\ astro.logs[i].level = "error"
                        /\ astro.logs[i].message.text = "No Astro adapter found. Add one of:"
        /\ At("writeFile", "api.ts") = {}
        /\ At("writeFile", "client.ts") = {}
        /\ LeftAsFound("api.ts")
        /\ LeftAsFound("client.ts")
        /\ astro.virtualImports = <<>>
        /\ astro.routes = <<>>
        /\ Calls("addVirtualImports") = {}
        /\ Calls("injectRoute") = {}
        /\ Written("router.ts")
        /\ fs.files[CodegenDir \o "router.ts"].generator = "generateRouter"
        /\ RouterImports = pass.resolvedActionsPath

C27_Witness ==
    /\ NoAdapter
    /\ RouterWritten
    /\ config.variant = "part_008"
    /\ pass.hook = "returned"
    /\ Written("router.ts")
    /\ fs.files[CodegenDir \o "router.ts"] # Str("stale")
    /\ Written("api.ts")
    /\ fs.files[CodegenDir \o "api.ts"] = Str("stale")
    /\ astro.routes = <<>>

(* ------------------------ status of error responses --------------------- *)

\* the handler threw an action error whose code is that of a validation error
ThrewValidationCode ==
    /\ ThrewActionError
    /\ Get(req.outcome.value, "code") = Str("INPUT_VALIDATION_ERROR")

\* C28: the status of an error response is determined by the stage that
\* failed, never by the error code: on an action route status 400 is produced
\* exactly by a validation failure and status 500 exactly by a handler throw;
\* a handler that throws HonoActionError with code 'INPUT_VALIDATION_ERROR' is
\* answered 500 carrying that code, and no validation failure is answered 500.
C28_StatusFollowsStage ==
    OnActionRoute =>
        /\ res.status = 400 <=> ValidationFailed
        /\ res.status = 500 <=> HandlerThrew
        /\ res.status = 200 <=> HandlerReturned
        /\ ThrewValidationCode =>
                /\ res.status = 500
                /\ Get(Error, "code") = Str("INPUT_VALIDATION_ERROR")
        /\ ValidationFailed => res.status # 500

C28_Witness ==
    /\ ThrewValidationCode
    /\ res.status = 500
    /\ Get(Error, "code") = Str("INPUT_VALIDATION_ERROR")
    /\ Get(Error, "message") = Str("Test error")

(* ------------------------ the actionsPath override ---------------------- *)

\* the path an override stands for: an absolute one itself, a relative one
\* under the consumer project root
OverrideInProject ==
    IF isAbsolute(config.options.actionsPath)
    THEN config.options.actionsPath
    ELSE FilePath(ProjectRoot, config.options.actionsPath.rel)

\* C29: a relative actionsPath override is resolved against the consumer
\* project root and an absolute one is used unchanged; the resolved path is
\* the one that is watched and the one the generated router imports, as a
\* path relative to the codegen directory.
C29_OverrideResolvedInProject ==
    (/\ config.options.actionsPath # Undefined
     /\ pass.resolvedActionsPath # Undefined) =>
        /\ pass.resolvedActionsPath = OverrideInProject
        /\ astro.watched = {pass.resolvedActionsPath}
        /\ Written("router.ts") =>
                fs.files[CodegenDir \o "router.ts"].relativeActionsPath
                    = relative(CodegenDir, OverrideInProject)

(* --------------------------- running a pass twice ----------------------- *)

\* this pass and the one before it both ran astro:config:setup to its end
RanTwice ==
    /\ pass.n > 1
    /\ pass.hook = "completed"
    /\ pass.previous.hook = "completed"

\* what a pass leaves: the generated files, the virtual modules, the route
Outputs(disk, virtualImports, routes) ==
    [files |-> disk.files, virtualImports |-> virtualImports, routes |-> routes]

\* the file search reported the same first match in both passes
SearchAgrees ==
    RouterImports
        = pass.previous.fs.files[CodegenDir \o "router.ts"].relativeActionsPath.to

\* C30: running the configuration pass twice with the same options, project
\* files and host configuration leaves router.ts, api.ts and client.ts with
\* the same contents, the same two virtual modules and the same route as
\* running it once.
C30_SecondPassSameAsFirst ==
    RanTwice =>
        Outputs(fs, astro.virtualImports, astro.routes)
            = Outputs(pass.previous.fs, pass.previous.virtualImports,
                      pass.previous.routes)

\* the part of C30 that does not depend on the file search: a completed pass
\* overwrites whatever the three files held, and two passes that used the
\* same actions file leave the same outputs
RerunSameWhenSearchAgrees ==
    /\ pass.hook = "completed" =>
            /\ fs.files[CodegenDir \o "router.ts"]
                    = generateRouter(pass.basePath,
                                     relative(CodegenDir, pass.resolvedActionsPath))
            /\ fs.files[CodegenDir \o "api.ts"] = pass.astroHandlerContent
            /\ fs.files[CodegenDir \o "client.ts"]
                    = getHonoClient("config.server.port")
            /\ Len(astro.virtualImports) = 1
            /\ Len(astro.routes) = 1
    /\ (RanTwice /\ SearchAgrees) => C30_SecondPassSameAsFirst

====
